---- MODULE Spec2Model ----
(***************************************************************************)
(* MCP Portal: the AI Sandbox agent loop (AITestingPage), the endpoint     *)
(* configuration page (EndpointSelectionPage, EndpointCard,                *)
(* ParameterConfig) with the polling of the generation status, the         *)
(* multi-server toolset composition, the server registry with tool        *)
(* execution, the upload control (FileUpload) inside the import dialog     *)
(* (SpecUploader), the deployment page (DeployedMCPsPage) and the          *)
(* provider settings of the AI Sandbox.                                    *)
(*                                                                         *)
(* The browser code is modelled from the sources.  The HTTP endpoints it   *)
(* calls (/test, /execute-tool, /batch-update, /generate-mcp, /deploy,     *)
(* /undeploy), the toolset composer and the server registry are            *)
(* server-side and are modelled from the specification and the API         *)
(* documentation.                                                          *)
(***************************************************************************)
EXTENDS Integers, Sequences, FiniteSets, TLC

\* messages the chat may show when a further user message is submitted
MaxShown == 4
\* turns the conversation history may hold when a further user message is submitted
MaxHistory == 4
\* edits of the endpoint configurations in one run
MaxEdits == 3
MaxPathLen == 4
MaxTools == 2
\* execute calls in one run
MaxExecutes == 2
\* generations started in one run
MaxGenerations == 2
\* characters of the stem of a file name
MaxNameLen == 1
\* tool invocations one provider response may request
MaxCalls == 2

VARIABLES
    \* ---- AITestingPage (React state) ----
    selectedServerIds,    \* useState<string[]>([])
    messages,             \* useState<Message[]>([])
    inputMessage,         \* useState('')
    conversationHistory,  \* useState<any[]>([])
    provider,             \* useState<'anthropic' | 'openai'>('anthropic')
    authorization,        \* useState('')
    settings,             \* anthropicModel, anthropicApiKey, openaiModel, openaiApiKey,
                          \* openaiBaseUrl: five useState hooks
    \* ---- handleSendMessage in flight ----
    pc,                   \* "idle" | "test" (awaiting testWithAI) | "exec" (awaiting executeTool)
    request,              \* what the closure of the running handler captured
    result,               \* the TestMessageResponse of the running handler
    idx,                  \* position of the for loop in result.tool_calls
    \* ---- history of the run ----
    stop,                 \* how the last turn ended: "none" | "final" | "error"
    histBefore,           \* conversationHistory when the running turn was submitted
    pendingAtCall         \* invocations of the preceding response still unexecuted
                          \* when the provider was last called

VARIABLES
    \* ---- EndpointSelectionPage (React state and query data) ----
    localConfigs,         \* useState<EndpointConfigWithDetails[]>([])
    hasChanges,           \* useState(false)
    configs,              \* data of useEndpointConfigs: the configurations as last fetched
    generationStatus,     \* status of the generation of generationId, "none" without one
    generationId,         \* useState<string | null>(null): 0 is null
    interval,             \* the refetch interval of the status query, 0 when off
    fetching,             \* a fetch of the status query is outstanding
    deploymentUrl,        \* useState<string | null>(null): 0 is null, else the id deployed
    deployPending,        \* deployMCP.isPending
    \* ---- batchUpdate.mutateAsync in flight ----
    savePending,          \* batchUpdate.isPending
    updates,              \* the batch the pending request carries
    \* ---- server side ----
    stored,               \* the endpoint configurations the server stores
    tools,                \* the compiled tool set of the last generation
    compiledFrom,         \* the stored configurations that generation compiled
    issued,               \* generation ids issued so far
    generated,            \* the status the server stores for the last generation
    \* ---- history of the run ----
    edits,                \* edits made on the page
    lastEdit              \* the configuration the last edit passed to onChange, if any

pollVars == <<generationId, interval, fetching, issued, generated>>
deployVars == <<deploymentUrl, deployPending>>

cfgVars == <<localConfigs, hasChanges, configs, generationStatus, savePending, updates,
             stored, tools, compiledFrom, edits, lastEdit, pollVars, deployVars>>

VARIABLES
    \* ---- EndpointCard: the Tool Name placeholder ----
    http_method,          \* endpoint.http_method
    path,                 \* endpoint.path
    placeholder,          \* the placeholder the Tool Name input shows
    rendered              \* whether the card has been rendered

nameVars == <<http_method, path, placeholder, rendered>>

VARIABLES
    \* ---- Server Registry and Toolset Composer ----
    registry,             \* server id -> [tools, selected_endpoints_count]
    serverIds,            \* the ordered list of server ids given to compose
    composed              \* the result of compose: tool name -> [server_id, tool]

compVars == <<registry, serverIds, composed>>

VARIABLES
    \* ---- Server Registry, sessions and the Request Synthesizer ----
    servers,              \* server id -> DeployedServer [is_active, base_url, tools, ...]
    requestedUrl,         \* server id -> the base URL of the last successful update
    session,              \* the session of the last user message: [error, toolset,
                          \* provider_called]
    log                   \* the execute calls so far, each with its outcome

dispVars == <<servers, requestedUrl, session, log>>

VARIABLES
    \* ---- FileUpload (React state) ----
    dragActive,           \* useState(false)
    selectedFile,         \* useState<File | null>(null)
    error,                \* useState<string | null>(null)
    \* ---- history of the run ----
    file,                 \* the file of the last drop or change event
    onFileSelect,         \* the file that event passed to onFileSelect, if any
    \* ---- SpecUploader (the import dialog) ----
    uploaderFile,         \* useState<File | null>(null), set by onFileSelect
    uploadPending         \* uploadFile.isPending

uploadVars == <<dragActive, selectedFile, error, file, onFileSelect,
               uploaderFile, uploadPending>>

VARIABLES
    \* ---- DeployedMCPsPage ----
    deployedData,         \* useDeployedServers data: id -> is_active as last fetched
    isPending,            \* undeployMCP.isPending
    invalidated,          \* ['deployed-servers'] invalidated, its refetch outstanding
    restarting,           \* the handleRestart call in flight
    stopping,             \* the handleStop call in flight
    starting              \* the handleStart call in flight

pageVars == <<deployedData, isPending, invalidated, restarting, stopping, starting>>

chatVars == <<selectedServerIds, messages, inputMessage, conversationHistory,
              provider, authorization, settings, pc, request, result, idx,
              stop, histBefore, pendingAtCall>>

vars == <<chatVars, cfgVars, nameVars, compVars, dispVars, uploadVars, pageVars>>

outsideChat == <<cfgVars, nameVars, compVars, dispVars, uploadVars, pageVars>>
outsideCfg == <<chatVars, nameVars, compVars, dispVars, uploadVars, pageVars>>
outsideName == <<chatVars, cfgVars, compVars, dispVars, uploadVars, pageVars>>
outsideComp == <<chatVars, cfgVars, nameVars, dispVars, uploadVars, pageVars>>
outsideDisp == <<chatVars, cfgVars, nameVars, compVars, uploadVars, pageVars>>
outsideUpload == <<chatVars, cfgVars, nameVars, compVars, dispVars, pageVars>>
\* the page's requests reach the registry, so servers is not outside it
outsidePage == <<chatVars, cfgVars, nameVars, compVars, uploadVars,
                 requestedUrl, session, log>>

--------------------------------------------------------------------------
(* Conversation turns *)

ServerIds == {"s1", "s2"}
\* additional_tool_calls of an execute-tool reply: none or one
AdditionalCalls == {0, 1}
Providers == {"anthropic", "openai"}

UserTurn == [role |-> "user", ids |-> <<>>, id |-> <<"none", 0>>, err |-> FALSE]
AssistantTurn(ids) == [role |-> "assistant", ids |-> ids, id |-> <<"none", 0>>, err |-> FALSE]
ToolResultTurn(id, err) == [role |-> "tool", ids |-> <<>>, id |-> id, err |-> err]

\* the invocation ids emitted by the assistant turns of a history, in order
RECURSIVE EmittedIds(_)
EmittedIds(h) ==
    IF h = <<>> THEN <<>>
    ELSE (IF Head(h).role = "assistant" THEN Head(h).ids ELSE <<>>) \o EmittedIds(Tail(h))

SeqRange(s) == {s[k] : k \in 1..Len(s)}

--------------------------------------------------------------------------
(* Provider adapter and the two AI testing endpoints *)

\* ids of the given kind the conversation already holds
IdCount(hist, kind) ==
    Cardinality({k \in 1..Len(EmittedIds(hist)) : EmittedIds(hist)[k][1] = kind})

\* Variant B: ids synthesized by the monotonic per-conversation counter
SynthesizedIds(hist, n) == [k \in 1..n |-> <<"call", IdCount(hist, "call") + k>>]

\* Variant A: ids assigned by the provider, new to the conversation it is given
ProviderIds(hist, n) == [k \in 1..n |-> <<"toolu", IdCount(hist, "toolu") + k>>]

InvocationIds(prov, hist, n) ==
    IF prov = "openai" THEN SynthesizedIds(hist, n) ELSE ProviderIds(hist, n)

\* POST /ai-testing/deployed-servers/{id}/test: one provider call on the
\* history plus the user message; the reply requests n tool invocations
TestEndpoint(req, n) ==
    LET h0  == Append(req.conversation_history, UserTurn)
        ids == InvocationIds(req.provider, h0, n)
    IN  [tool_calls |-> ids,
         conversation_history |-> Append(h0, AssistantTurn(ids)),
         requires_tool_execution |-> n > 0]

\* POST /ai-testing/deployed-servers/{id}/execute-tool: runs the one tool call,
\* appends its tool-result turn (a result or an error payload) and calls the
\* provider again; the reply requests n additional tool invocations
ExecuteToolEndpoint(req, err, n) ==
    LET h1  == Append(req.conversation_history, ToolResultTurn(req.tool_call, err))
        ids == InvocationIds(req.provider, h1, n)
    IN  [tool_execution_result |-> [id |-> req.tool_call, err |-> err],
         additional_tool_calls |-> ids,
         conversation_history |-> Append(h1, AssistantTurn(ids))]

--------------------------------------------------------------------------
(* AITestingPage *)

NoResult == [tool_calls |-> <<>>, conversation_history |-> <<>>,
             requires_tool_execution |-> FALSE]
NoRequest == [conversation_history |-> <<>>, provider |-> "anthropic", server_ids |-> <<>>,
              authorization |-> "undefined",
              model |-> "undefined", api_key |-> "undefined", base_url |-> "undefined"]

\* the initial values of the five hooks
DefaultSettings ==
    [anthropicModel |-> "claude-3-haiku-20240307", anthropicApiKey |-> "",
     openaiModel |-> "gpt-4o", openaiApiKey |-> "",
     openaiBaseUrl |-> "https://api.openai.com/v1"]

\* what the configuration panel may hold
Settings ==
    [anthropicModel : {"claude-3-haiku-20240307", "claude-3-opus"},
     anthropicApiKey : {"", "sk-ant"},
     openaiModel : {"gpt-4o", "gpt-4"},
     openaiApiKey : {"", "sk-openai"},
     openaiBaseUrl : {"https://api.openai.com/v1", "http://localhost"}]

ProviderFieldsWithBaseUrl(p, st) ==
    [model |-> IF p = "openai" THEN st.openaiModel ELSE st.anthropicModel,
     api_key |-> IF p = "openai"
                 THEN (IF st.openaiApiKey = "" THEN "undefined" ELSE st.openaiApiKey)
                 ELSE (IF st.anthropicApiKey = "" THEN "undefined" ELSE st.anthropicApiKey),
     base_url |-> st.openaiBaseUrl]

\* the model, api_key and base_url fields of a request
ProviderFields(p, st) ==
    [model |-> IF p = "openai" THEN st.openaiModel ELSE st.anthropicModel,
     api_key |-> IF p = "openai"
                 THEN (IF st.openaiApiKey = "" THEN "undefined" ELSE st.openaiApiKey)
                 ELSE (IF st.anthropicApiKey = "" THEN "undefined" ELSE st.anthropicApiKey),
     base_url |-> IF p = "openai" THEN st.openaiBaseUrl ELSE "undefined"]

\* the conversation_history field of an execute-tool request
ExecRequestHistoryStale(res, req) == req.conversation_history
ExecRequestHistory(res, req) == res.conversation_history

ExecRequestToPrimaryServer(res, req, k) ==
    [tool_call |-> res.tool_calls[k],
     conversation_history |-> ExecRequestHistory(res, req),
     provider |-> req.provider,
     server_ids |-> <<req.server_ids[1]>>,
     authorization |-> req.authorization,
     model |-> req.model, api_key |-> req.api_key, base_url |-> req.base_url]

ExecRequestWithoutAuthorization(res, req, k) ==
    [tool_call |-> res.tool_calls[k],
     conversation_history |-> ExecRequestHistory(res, req),
     provider |-> req.provider,
     server_ids |-> req.server_ids,
     authorization |-> "undefined",
     model |-> req.model, api_key |-> req.api_key, base_url |-> req.base_url]

\* the execute-tool request of the for loop's current tool call
ExecRequest(res, req, k) ==
    [tool_call |-> res.tool_calls[k],
     conversation_history |-> ExecRequestHistory(res, req),
     provider |-> req.provider,
     server_ids |-> req.server_ids,
     authorization |-> req.authorization,
     model |-> req.model, api_key |-> req.api_key, base_url |-> req.base_url]

ChatInit ==
    /\ selectedServerIds = <<>>
    /\ messages = <<>>
    /\ inputMessage = ""
    /\ conversationHistory = <<>>
    /\ provider = "anthropic"
    /\ authorization = ""
    /\ settings = DefaultSettings
    /\ pc = "idle"
    /\ request = NoRequest
    /\ result = NoResult
    /\ idx = 0
    /\ stop = "none"
    /\ histBefore = <<>>
    /\ pendingAtCall = {}

\* A running handler reads only what it captured in request, so a change of
\* the selection or of the provider during a turn commutes with the turn's
\* steps; it is taken before or after the turn.
handleToggleServer(serverId) ==
    /\ pc = "idle"
    /\ selectedServerIds' =
          IF serverId \in SeqRange(selectedServerIds)
          THEN SelectSeq(selectedServerIds, LAMBDA x : x # serverId)
          ELSE Append(selectedServerIds, serverId)
    /\ UNCHANGED <<authorization, messages, inputMessage, conversationHistory, provider, pc, request,
                   result, idx, stop, histBefore,
                   pendingAtCall>>
    /\ UNCHANGED settings
    /\ UNCHANGED outsideChat

\* the Clear button of the server list
clearSelectedServers ==
    /\ pc = "idle"
    /\ selectedServerIds # <<>>
    /\ selectedServerIds' = <<>>
    /\ UNCHANGED <<authorization, messages, inputMessage, conversationHistory, provider, pc, request,
                   result, idx, stop, histBefore, pendingAtCall>>
    /\ UNCHANGED settings
    /\ UNCHANGED outsideChat

setProvider(p) ==
    /\ pc = "idle"
    /\ provider' = p
    /\ provider # p
    /\ UNCHANGED <<authorization, selectedServerIds, messages, inputMessage, conversationHistory, pc,
                   request, result, idx, stop,
                   histBefore, pendingAtCall>>
    /\ UNCHANGED settings
    /\ UNCHANGED outsideChat

\* the Authorization field of the configuration panel
setAuthorization(value) ==
    /\ pc = "idle"
    /\ authorization # value
    /\ authorization' = value
    /\ UNCHANGED <<selectedServerIds, messages, inputMessage, conversationHistory,
                   provider, pc, request, result, idx, stop, histBefore, pendingAtCall>>
    /\ UNCHANGED settings
    /\ UNCHANGED outsideChat

inputDisabledNever == FALSE

\* disabled={testWithAI.isPending || executeTool.isPending}
inputDisabled == pc # "idle"

\* the input is disabled while testWithAI or executeTool is pending
setInputMessage(text) ==
    /\ ~inputDisabled
    /\ inputMessage # text
    /\ inputMessage' = text
    /\ UNCHANGED <<authorization, selectedServerIds, messages, conversationHistory, provider, pc,
                   request, result, idx, stop,
                   histBefore, pendingAtCall>>
    /\ UNCHANGED settings
    /\ UNCHANGED outsideChat

handleClearChat ==
    /\ messages' = <<>>
    /\ conversationHistory' = <<>>
    /\ histBefore' = <<>>
    /\ UNCHANGED <<authorization, selectedServerIds, inputMessage, provider, pc, request, result,
                   idx, stop, pendingAtCall>>
    /\ UNCHANGED settings
    /\ UNCHANGED outsideChat

\* handleSendMessage up to the await of testWithAI.mutateAsync
handleSendMessage ==
    /\ ~inputDisabled
    /\ Len(messages) < MaxShown
    /\ Len(conversationHistory) <= MaxHistory
    /\ ~(inputMessage = "" \/ Len(selectedServerIds) = 0)
    /\ messages' = Append(messages, "user")
    /\ inputMessage' = ""
    /\ request' = [conversation_history |-> conversationHistory,
                   provider |-> provider,
                   server_ids |-> selectedServerIds,
                   authorization |-> IF authorization = "" THEN "undefined"
                                     ELSE authorization,
                   model |-> ProviderFields(provider, settings).model,
                   api_key |-> ProviderFields(provider, settings).api_key,
                   base_url |-> ProviderFields(provider, settings).base_url]
    /\ pc' = "test"
    /\ stop' = "none"
    /\ histBefore' = conversationHistory
    /\ result' = NoResult
    /\ idx' = 0
    /\ UNCHANGED <<authorization, selectedServerIds, conversationHistory, provider, pendingAtCall>>
    /\ UNCHANGED settings
    /\ UNCHANGED outsideChat

\* testWithAI resolves: lines 111-125
TestResolved(n) ==
    /\ pc = "test"
    /\ LET res == TestEndpoint(request, n) IN
        /\ conversationHistory' = res.conversation_history
        /\ messages' = Append(messages, "assistant")
        /\ pendingAtCall' = {}
        /\ IF res.requires_tool_execution /\ Len(res.tool_calls) > 0
           THEN /\ pc' = "exec" /\ idx' = 1 /\ stop' = stop
                /\ result' = res /\ request' = request
           ELSE /\ pc' = "idle" /\ idx' = 0 /\ stop' = "final"
                /\ result' = NoResult /\ request' = NoRequest
    /\ UNCHANGED <<authorization, selectedServerIds, inputMessage, provider, histBefore>>
    /\ UNCHANGED settings
    /\ UNCHANGED outsideChat

\* testWithAI rejects (ProviderError, ProviderProtocolError): the catch block
TestRejected ==
    /\ pc = "test"
    /\ messages' = Append(messages, "error")
    /\ pc' = "idle"
    /\ stop' = "error"
    /\ request' = NoRequest
    /\ result' = NoResult
    /\ idx' = 0
    /\ UNCHANGED <<authorization, selectedServerIds, inputMessage, conversationHistory, provider,
                   histBefore,
                   pendingAtCall>>
    /\ UNCHANGED settings
    /\ UNCHANGED outsideChat

\* executeTool resolves for result.tool_calls[idx]: lines 139-151
ExecResolved(err, n) ==
    /\ pc = "exec"
    /\ LET tr == ExecuteToolEndpoint(ExecRequest(result, request, idx), err, n) IN
        /\ conversationHistory' = tr.conversation_history
        /\ messages' = Append(messages, "final")
        /\ pendingAtCall' = {result.tool_calls[k] : k \in (idx + 1)..Len(result.tool_calls)}
        /\ IF idx < Len(result.tool_calls)
           THEN /\ pc' = "exec" /\ idx' = idx + 1 /\ stop' = stop
                /\ result' = result /\ request' = request
           ELSE /\ pc' = "idle" /\ idx' = 0 /\ stop' = "final"
                /\ result' = NoResult
                /\ request' = NoRequest
    /\ UNCHANGED <<authorization, selectedServerIds, inputMessage, provider, histBefore>>
    /\ UNCHANGED settings
    /\ UNCHANGED outsideChat

\* executeTool rejects (the provider call after the tool result failed): the
\* catch block ends the for loop
ExecRejected ==
    /\ pc = "exec"
    /\ messages' = Append(messages, "error")
    /\ pc' = "idle"
    /\ stop' = "error"
    /\ request' = NoRequest
    /\ result' = NoResult
    /\ idx' = 0
    /\ UNCHANGED <<authorization, selectedServerIds, inputMessage, conversationHistory, provider,
                   histBefore,
                   pendingAtCall>>
    /\ UNCHANGED settings
    /\ UNCHANGED outsideChat

\* an input of the AI Provider Configuration panel: setAnthropicModel,
\* setAnthropicApiKey, setOpenaiModel, setOpenaiApiKey or setOpenaiBaseUrl
setSettings(st) ==
    /\ pc = "idle"
    /\ \E f \in DOMAIN settings :
           /\ st[f] # settings[f]
           /\ \A g \in DOMAIN settings \ {f} : st[g] = settings[g]
    /\ settings' = st
    /\ UNCHANGED <<selectedServerIds, messages, inputMessage, conversationHistory,
                   provider, authorization, pc, request, result, idx, stop, histBefore,
                   pendingAtCall>>
    /\ UNCHANGED outsideChat

\* the chat with the configuration panel in use and one server in the list
ProviderNext ==
    \/ \E st \in Settings : setSettings(st)
    \/ \E p \in Providers : setProvider(p)
    \/ handleToggleServer("s1")
    \/ \E t \in {"", "hi"} : setInputMessage(t)
    \/ handleSendMessage
    \/ \E n \in 0..1 : TestResolved(n)
    \/ TestRejected
    \/ \E e \in BOOLEAN : ExecResolved(e, 0)
    \/ ExecRejected

ChatNext ==
    \/ \E s \in ServerIds : handleToggleServer(s)
    \/ clearSelectedServers
    \/ \E p \in Providers : setProvider(p)
    \/ \E v \in {"", "Bearer"} : setAuthorization(v)
    \/ \E t \in {"", "hi"} : setInputMessage(t)
    \/ handleClearChat
    \/ handleSendMessage
    \/ \E n \in 0..MaxCalls : TestResolved(n)
    \/ TestRejected
    \/ \E e \in BOOLEAN, n \in AdditionalCalls : ExecResolved(e, n)
    \/ ExecRejected


--------------------------------------------------------------------------
(* Tool names: strings as sequences of characters *)

UpperCase == {"G", "E", "T", "P", "U"}
LowerCase == {"g", "e", "t", "p", "u", "a"}
Digits == {"7"}

\* String.prototype.toLowerCase on one character
toLowerCase(c) ==
    CASE c = "G" -> "g" [] c = "E" -> "e" [] c = "T" -> "t"
      [] c = "P" -> "p" [] c = "U" -> "u"
      [] c = "Y" -> "y" [] c = "M" -> "m" [] c = "L" -> "l"
      [] c = "J" -> "j" [] c = "S" -> "s" [] c = "O" -> "o" [] c = "N" -> "n"
      [] OTHER -> c

\* path.replace(/[^a-z0-9]/gi, '_'): with the i flag a letter of either case stays
ReplaceNonAlphanumeric(str) ==
    [k \in 1..Len(str) |->
        IF str[k] \in UpperCase \cup LowerCase \cup Digits THEN str[k] ELSE "_"]

\* the placeholder of the Tool Name input
PlaceholderToolName(method, pth) ==
    [k \in 1..Len(method) |-> toLowerCase(method[k])] \o <<"_">> \o ReplaceNonAlphanumeric(pth)

\* the default name the Tool Compiler gives a tool without a custom name
DefaultToolName(method, pth) ==
    [k \in 1..(Len(method) + 1 + Len(pth)) |->
        toLowerCase((method \o <<"_">> \o ReplaceNonAlphanumeric(pth))[k])]

--------------------------------------------------------------------------
(* Endpoint configurations *)

Texts == {"", "d"}
ToolNames == {<<>>, <<"t">>}

ParameterConfigItem(name, location, description, required) ==
    [name |-> name, location |-> location, description |-> description,
     required |-> required, user_required |-> required]

EndpointConfig(id, method, pth, params) ==
    [id |-> id, http_method |-> method, path |-> pth, is_selected |-> FALSE,
     mcp_tool_name |-> <<>>, mcp_description |-> "",
     parameter_configurations |-> params]

\* the parameter lists the parsed specification may give the first endpoint:
\* a required path parameter and an optional query parameter, of the same
\* name or not, the second documented or not
ParameterLists ==
    {<<ParameterConfigItem("id", "path", "d", TRUE),
       ParameterConfigItem(n, "query", d, FALSE)>> : n \in {"id", "limit"}, d \in Texts}

\* the required values the specification declares for those parameters
DeclaredRequired == <<TRUE, FALSE>>

InitialConfigs(params) ==
    <<EndpointConfig("e1", <<"G", "E", "T">>, <<"/", "u">>, params),
      EndpointConfig("e2", <<"P", "U", "T">>, <<"/", "U">>, <<>>)>>

--------------------------------------------------------------------------
(* Tool Compiler and the endpoints behind the configuration page *)

\* the ToolDefinition of a descriptor
ToolOf(c) ==
    [endpoint_id |-> c.id,
     name |-> IF c.mcp_tool_name = <<>> THEN DefaultToolName(c.http_method, c.path)
              ELSE c.mcp_tool_name,
     description |-> c.mcp_description,
     inputContract |->
         [j \in 1..Len(c.parameter_configurations) |->
             [name |-> c.parameter_configurations[j].name,
              required |-> c.parameter_configurations[j].user_required,
              description |-> c.parameter_configurations[j].description]]]

CompileIgnoringParameters(c) ==
    IF c.is_selected /\ c.mcp_description = ""
    THEN [error |-> "ConfigurationError", tool |-> <<>>]
    ELSE [error |-> "", tool |-> <<ToolOf(c)>>]

\* compile(EndpointDescriptor) -> ToolDefinition | Error
Compile(c) ==
    IF \/ c.is_selected /\ c.mcp_description = ""
       \/ \E j \in 1..Len(c.parameter_configurations) :
              c.parameter_configurations[j].description = ""
    THEN [error |-> "ConfigurationError", tool |-> <<>>]
    ELSE [error |-> "", tool |-> <<ToolOf(c)>>]

RECURSIVE CompileAll(_)
CompileAll(cs) ==
    IF cs = <<>> THEN <<>> ELSE Compile(Head(cs)).tool \o CompileAll(Tail(cs))

\* POST /swagger-specs/{id}/generate-mcp: compiles the selected stored endpoints
Generate(cs) ==
    LET sel == SelectSeq(cs, LAMBDA c : c.is_selected) IN
    IF \E k \in 1..Len(sel) : Compile(sel[k]).error # ""
    THEN [status |-> "failed", tools |-> <<>>]
    ELSE [status |-> "completed", tools |-> CompileAll(sel)]

\* POST /endpoint-configurations/batch-update
ApplyBatch(cs, ups) ==
    [k \in 1..Len(cs) |->
        IF \E u \in 1..Len(ups) : ups[u].endpoint_id = cs[k].id
        THEN LET up == ups[CHOOSE u \in 1..Len(ups) : ups[u].endpoint_id = cs[k].id] IN
             [cs[k] EXCEPT !.is_selected = up.is_selected,
                           !.mcp_tool_name = up.mcp_tool_name,
                           !.mcp_description = up.mcp_description,
                           !.parameter_configurations = up.parameter_configurations]
        ELSE cs[k]]

--------------------------------------------------------------------------
(* EndpointSelectionPage, EndpointCard, ParameterConfig *)

\* The page shows a spinner until the configurations are fetched; the model
\* starts when they are.
CfgInit ==
    /\ \E params \in ParameterLists : stored = InitialConfigs(params)
    /\ configs = stored
    /\ localConfigs = stored
    /\ hasChanges = FALSE
    /\ generationStatus = "none"
    /\ savePending = FALSE
    /\ updates = <<>>
    /\ tools = <<>>
    /\ compiledFrom = <<>>
    /\ edits = 0
    /\ lastEdit = <<>>
    /\ generationId = 0
    /\ interval = 0
    /\ fetching = FALSE
    /\ issued = 0
    /\ generated = "none"
    /\ deploymentUrl = 0
    /\ deployPending = FALSE

selectedCount == Len(SelectSeq(localConfigs, LAMBDA c : c.is_selected))

\* EndpointSelectionPage.handleConfigChange, as the new localConfigs
handleConfigChange(updatedConfig) ==
    [k \in 1..Len(localConfigs) |->
        IF localConfigs[k].id = updatedConfig.id THEN updatedConfig ELSE localConfigs[k]]

\* EndpointCard.handleParameterChange, as the endpoint passed to onChange
handleParameterChange(endpoint, updatedParam) ==
    [endpoint EXCEPT !.parameter_configurations =
        [j \in 1..Len(@) |-> IF @[j].name = updatedParam.name THEN updatedParam ELSE @[j]]]

\* an edit of one card: its onChange, then handleConfigChange
Edit(updatedConfig) ==
    /\ edits < MaxEdits
    /\ edits' = edits + 1
    /\ localConfigs' = handleConfigChange(updatedConfig)
    /\ lastEdit' = <<updatedConfig>>
    /\ hasChanges' = TRUE
    /\ UNCHANGED <<configs, generationStatus, savePending, updates, stored, tools,
                   compiledFrom>>
    /\ UNCHANGED pollVars
    /\ UNCHANGED deployVars
    /\ UNCHANGED outsideCfg

handleSelectionChange(k, checked) ==
    /\ localConfigs[k].is_selected # checked
    /\ Edit([localConfigs[k] EXCEPT !.is_selected = checked])

\* the fields below are rendered for a selected (and expanded) card only
setToolName(k, value) ==
    /\ localConfigs[k].is_selected
    /\ localConfigs[k].mcp_tool_name # value
    /\ Edit([localConfigs[k] EXCEPT !.mcp_tool_name = value])

setDescription(k, value) ==
    /\ localConfigs[k].is_selected
    /\ localConfigs[k].mcp_description # value
    /\ Edit([localConfigs[k] EXCEPT !.mcp_description = value])

\* ParameterConfig: the mandatory checkbox
setUserRequired(k, j, checked) ==
    /\ localConfigs[k].is_selected
    /\ j \in 1..Len(localConfigs[k].parameter_configurations)
    /\ localConfigs[k].parameter_configurations[j].user_required # checked
    /\ Edit(handleParameterChange(localConfigs[k],
            [localConfigs[k].parameter_configurations[j] EXCEPT !.user_required = checked]))

\* ParameterConfig: the description field
setParameterDescription(k, j, value) ==
    /\ localConfigs[k].is_selected
    /\ j \in 1..Len(localConfigs[k].parameter_configurations)
    /\ localConfigs[k].parameter_configurations[j].description # value
    /\ Edit(handleParameterChange(localConfigs[k],
            [localConfigs[k].parameter_configurations[j] EXCEPT !.description = value]))

\* the batch handleSave prepares
BatchUpdates(cs) ==
    [k \in 1..Len(cs) |->
        [endpoint_id |-> cs[k].id,
         is_selected |-> cs[k].is_selected,
         mcp_tool_name |-> cs[k].mcp_tool_name,
         mcp_description |-> cs[k].mcp_description,
         parameter_configurations |-> cs[k].parameter_configurations]]

handleSaveUnvalidated ==
    /\ hasChanges
    /\ ~savePending
    /\ savePending' = TRUE
    /\ updates' = BatchUpdates(localConfigs)
    /\ UNCHANGED <<localConfigs, hasChanges, configs, generationStatus, stored, tools,
                   compiledFrom, edits>>
    /\ UNCHANGED pollVars
    /\ UNCHANGED deployVars
    /\ UNCHANGED lastEdit
    /\ UNCHANGED outsideCfg

\* handleSave up to the await of batchUpdate.mutateAsync; the button is
\* disabled without changes and while a request is pending
handleSave ==
    /\ hasChanges
    /\ ~savePending
    /\ IF \E k \in 1..Len(localConfigs) :
              localConfigs[k].is_selected /\ localConfigs[k].mcp_description = ""
       THEN UNCHANGED <<savePending, updates>>
       ELSE /\ savePending' = TRUE
            /\ updates' = BatchUpdates(localConfigs)
    /\ UNCHANGED <<localConfigs, hasChanges, configs, generationStatus, stored, tools,
                   compiledFrom, edits>>
    /\ UNCHANGED pollVars
    /\ UNCHANGED deployVars
    /\ UNCHANGED lastEdit
    /\ UNCHANGED outsideCfg

\* the request succeeds: setHasChanges(false), and the effect on [configs,
\* hasChanges] copies the configurations as last fetched into localConfigs
SaveResolved ==
    /\ savePending
    /\ stored' = ApplyBatch(stored, updates)
    /\ savePending' = FALSE
    /\ updates' = <<>>
    /\ hasChanges' = FALSE
    /\ localConfigs' = configs
    /\ UNCHANGED <<configs, generationStatus, tools, compiledFrom, edits>>
    /\ UNCHANGED pollVars
    /\ UNCHANGED deployVars
    /\ UNCHANGED lastEdit
    /\ UNCHANGED outsideCfg

\* the request fails: the catch block
SaveRejected ==
    /\ savePending
    /\ savePending' = FALSE
    /\ updates' = <<>>
    /\ UNCHANGED <<localConfigs, hasChanges, configs, generationStatus, stored, tools,
                   compiledFrom, edits>>
    /\ UNCHANGED pollVars
    /\ UNCHANGED deployVars
    /\ UNCHANGED lastEdit
    /\ UNCHANGED outsideCfg

\* the refetch after invalidateQueries, and the effect on [configs, hasChanges]
Refetch ==
    /\ configs # stored
    /\ configs' = stored
    /\ localConfigs' = IF ~hasChanges THEN stored ELSE localConfigs
    /\ UNCHANGED <<hasChanges, generationStatus, savePending, updates, stored, tools,
                   compiledFrom, edits>>
    /\ UNCHANGED pollVars
    /\ UNCHANGED deployVars
    /\ UNCHANGED lastEdit
    /\ UNCHANGED outsideCfg

refetchIntervalAlways(status) == 2000

\* refetchInterval of useGenerationStatus: 2000 ms while the status is
\* pending or generating, off (false) otherwise
refetchInterval(status) ==
    IF status = "pending" \/ status = "generating" THEN 2000 ELSE 0

\* the Generate MCP Server button, shown when !hasChanges && selectedCount > 0
\* && !generationStatus: the server starts a generation of the stored
\* configurations and setGenerationId(result.generation_id) mounts the status
\* query of the new id, which has no data yet and fetches
handleGenerateMCP ==
    /\ ~hasChanges
    /\ selectedCount > 0
    /\ generationStatus = "none"
    /\ issued < MaxGenerations
    /\ issued' = issued + 1
    /\ generationId' = issued + 1
    /\ generated' = "pending"
    /\ tools' = <<>>
    /\ compiledFrom' = stored
    /\ fetching' = TRUE
    /\ interval' = refetchInterval("none")
    /\ UNCHANGED <<localConfigs, hasChanges, configs, generationStatus, savePending,
                   updates, stored, edits>>
    /\ UNCHANGED deployVars
    /\ UNCHANGED lastEdit
    /\ UNCHANGED outsideCfg

\* the server starts to compile
GenerationStarted ==
    /\ generated = "pending"
    /\ generated' = "generating"
    /\ UNCHANGED <<localConfigs, hasChanges, configs, generationStatus, savePending,
                   updates, stored, tools, compiledFrom, edits,
                   generationId, interval, fetching, issued>>
    /\ UNCHANGED deployVars
    /\ UNCHANGED lastEdit
    /\ UNCHANGED outsideCfg

\* the server has compiled the tools, or failed to
GenerationFinished ==
    /\ generated = "generating"
    /\ generated' = Generate(compiledFrom).status
    /\ tools' = Generate(compiledFrom).tools
    /\ UNCHANGED <<localConfigs, hasChanges, configs, generationStatus, savePending,
                   updates, stored, compiledFrom, edits,
                   generationId, interval, fetching, issued>>
    /\ UNCHANGED deployVars
    /\ UNCHANGED lastEdit
    /\ UNCHANGED outsideCfg

\* the outstanding GET .../{generationId}/status returns the stored status, or
\* fails and leaves the data as it was; the interval is computed from the data
StatusFetched(ok) ==
    /\ generationId # 0
    /\ fetching
    /\ fetching' = FALSE
    /\ generationStatus' = IF ok THEN generated ELSE generationStatus
    /\ interval' = refetchInterval(generationStatus')
    /\ UNCHANGED <<localConfigs, hasChanges, configs, savePending, updates, stored,
                   tools, compiledFrom, edits, generationId, issued, generated>>
    /\ UNCHANGED deployVars
    /\ UNCHANGED lastEdit
    /\ UNCHANGED outsideCfg

\* the interval has elapsed: the status query fetches again
IntervalElapsed ==
    /\ generationId # 0
    /\ interval > 0
    /\ ~fetching
    /\ fetching' = TRUE
    /\ UNCHANGED <<localConfigs, hasChanges, configs, generationStatus, savePending,
                   updates, stored, tools, compiledFrom, edits,
                   generationId, interval, issued, generated>>
    /\ UNCHANGED deployVars
    /\ UNCHANGED lastEdit
    /\ UNCHANGED outsideCfg

\* Try Again: setGenerationId(null) disables the status query
tryAgain ==
    /\ generationStatus = "failed"
    /\ generationStatus' = "none"
    /\ generationId' = 0
    /\ interval' = 0
    /\ fetching' = FALSE
    /\ UNCHANGED <<localConfigs, hasChanges, configs, savePending, updates, stored, tools,
                   compiledFrom, edits, issued, generated>>
    /\ UNCHANGED deployVars
    /\ UNCHANGED lastEdit
    /\ UNCHANGED outsideCfg

canDeployAnyStatus == generationStatus # "none" /\ deploymentUrl = 0 /\ ~deployPending

\* the Deploy MCP Server button is shown when generationStatus && !deploymentUrl
\* && generationStatus.status === 'completed', disabled while deployMCP.isPending
canDeploy == generationStatus = "completed" /\ deploymentUrl = 0 /\ ~deployPending

\* handleDeploy: if (generationId) deployMCP.mutateAsync(generationId)
handleDeploy ==
    /\ canDeploy
    /\ generationId # 0
    /\ deployPending' = TRUE
    /\ UNCHANGED <<localConfigs, hasChanges, configs, generationStatus, savePending,
                   updates, stored, tools, compiledFrom, edits, deploymentUrl>>
    /\ UNCHANGED pollVars
    /\ UNCHANGED lastEdit
    /\ UNCHANGED outsideCfg

\* the deploy request succeeds (onSuccess invalidates the status query, which
\* fetches the stored status; setDeploymentUrl) or fails (alert)
DeploySettled(ok) ==
    /\ deployPending
    /\ deployPending' = FALSE
    /\ deploymentUrl' = IF ok THEN generationId ELSE deploymentUrl
    /\ generationStatus' = IF ok THEN generated ELSE generationStatus
    /\ interval' = refetchInterval(generationStatus')
    /\ UNCHANGED <<localConfigs, hasChanges, configs, savePending, updates, stored,
                   tools, compiledFrom, edits, generationId, fetching, issued, generated>>
    /\ UNCHANGED lastEdit
    /\ UNCHANGED outsideCfg

CfgNext ==
    \/ \E k \in 1..2, b \in BOOLEAN : handleSelectionChange(k, b)
    \/ \E k \in 1..2, n \in ToolNames : setToolName(k, n)
    \/ \E k \in 1..2, t \in Texts : setDescription(k, t)
    \/ \E k \in 1..2, j \in 1..2, b \in BOOLEAN : setUserRequired(k, j, b)
    \/ \E k \in 1..2, j \in 1..2, t \in Texts : setParameterDescription(k, j, t)
    \/ handleSave
    \/ SaveResolved
    \/ SaveRejected
    \/ Refetch
    \/ handleGenerateMCP
    \/ GenerationStarted
    \/ GenerationFinished
    \/ \E ok \in BOOLEAN : StatusFetched(ok)
    \/ IntervalElapsed
    \/ tryAgain
    \/ handleDeploy
    \/ \E ok \in BOOLEAN : DeploySettled(ok)

--------------------------------------------------------------------------
(* The Tool Name input of an endpoint card *)

Methods == {<<"G", "E", "T">>, <<"P", "U", "T">>}
PathChars == {"/", "u", "U", "7", "-"}
Paths == UNION {{p \in [1..n -> PathChars] : p[1] = "/"} : n \in 1..MaxPathLen}

NameInit ==
    /\ http_method \in Methods
    /\ path \in Paths
    /\ placeholder = <<>>
    /\ rendered = FALSE

\* the card is selected and expanded: the input is rendered with its placeholder
renderToolNameInput ==
    /\ ~rendered
    /\ rendered' = TRUE
    /\ placeholder' = PlaceholderToolName(http_method, path)
    /\ UNCHANGED <<http_method, path>>
    /\ UNCHANGED outsideName

\* the card is collapsed
collapseCard ==
    /\ rendered
    /\ rendered' = FALSE
    /\ placeholder' = <<>>
    /\ UNCHANGED <<http_method, path>>
    /\ UNCHANGED outsideName

NameNext ==
    \/ renderToolNameInput
    \/ collapseCard

--------------------------------------------------------------------------
(* Toolset Composer *)

Rep(c, n) == [k \in 1..n |-> c]

\* three deployed servers, two of which share the first 8 characters of the id
RegisteredIds ==
    {Rep("a", 8) \o <<"1">>, Rep("b", 8) \o <<"2">>, Rep("b", 8) \o <<"3">>}

\* _<serverId[:8]>
ShortId(serverId) == SubSeq(serverId, 1, 8)
Renamed(name, serverId) == name \o <<"_">> \o ShortId(serverId)

\* the names a deployed tool may have; the last is a custom name
DeployedNames == {<<"x">>, <<"y">>, <<"x", "_">> \o Rep("b", 8)}

\* the tool lists of a server: names are unique within one server
ToolLists ==
    UNION {{ts \in [1..n -> DeployedNames] :
               \A i, j \in 1..n : ts[i] = ts[j] => i = j} : n \in 0..MaxTools}

\* the selections of distinct servers, in order
Orders ==
    UNION {{o \in [1..n -> RegisteredIds] :
               \A i, j \in 1..n : o[i] = o[j] => i = j} : n \in 0..Cardinality(RegisteredIds)}

EmptyToolset == [n \in {} |-> <<>>]

\* ComposedToolset is a mapping: tool name -> (server id, tool)
Put(toolset, name, entry) ==
    [n \in DOMAIN toolset \cup {name} |-> IF n = name THEN entry ELSE toolset[n]]

AddTool(toolset, serverId, tool) ==
    IF tool \in DOMAIN toolset
    THEN Put(toolset, Renamed(tool, serverId), [server_id |-> serverId, tool |-> tool])
    ELSE Put(toolset, tool, [server_id |-> serverId, tool |-> tool])

RECURSIVE AddTools(_, _, _)
AddTools(toolset, serverId, ts) ==
    IF ts = <<>> THEN toolset
    ELSE AddTools(AddTool(toolset, serverId, Head(ts)), serverId, Tail(ts))

RECURSIVE ComposeFrom(_, _, _)
ComposeFrom(toolset, reg, order) ==
    IF order = <<>> THEN toolset
    ELSE ComposeFrom(AddTools(toolset, Head(order), reg[Head(order)].tools), reg,
                     Tail(order))

\* compose(serverIds: ordered list) -> ComposedToolset
Compose(reg, order) == ComposeFrom(EmptyToolset, reg, order)

RECURSIVE SumOfCounts(_, _)
SumOfCounts(reg, order) ==
    IF order = <<>> THEN 0
    ELSE reg[Head(order)].selected_endpoints_count + SumOfCounts(reg, Tail(order))

\* AITestingPage: the tool count shown for the selected servers
totalToolCount(reg, order) == SumOfCounts(reg, order)

CompInit ==
    /\ registry \in [RegisteredIds -> {[tools |-> ts, selected_endpoints_count |-> Len(ts)] :
                                          ts \in ToolLists}]
    /\ serverIds = <<>>
    /\ composed = EmptyToolset

\* a session starts with the selected servers
compose(order) ==
    /\ order # <<>>
    /\ serverIds' = order
    /\ composed' = Compose(registry, order)
    /\ UNCHANGED registry
    /\ UNCHANGED outsideComp

\* the session ends: the composed toolset is never persisted
endSession ==
    /\ serverIds # <<>>
    /\ serverIds' = <<>>
    /\ composed' = EmptyToolset
    /\ UNCHANGED registry
    /\ UNCHANGED outsideComp

CompNext ==
    \/ \E order \in Orders : compose(order)
    \/ endSession

--------------------------------------------------------------------------
(* Server Registry, session composition and the Request Synthesizer *)

ServerA == Rep("a", 8) \o <<"1">>
ServerB == Rep("b", 8) \o <<"2">>
DeployedIds == {ServerA, ServerB}
BaseUrls == {"u1", "u2"}

\* the tools of the two servers: get user x of ServerA, list users y of ServerB
ToolsAt(id) == IF id = ServerA THEN <<<<"x">>>> ELSE <<<<"y">>>>

\* the input contract of a tool: its parameter and the parameter's required flag
InputContract(tool) ==
    IF tool = <<"x">> THEN [parameter |-> "user_id", required |-> TRUE]
    ELSE [parameter |-> "limit", required |-> FALSE]

\* the arguments a model may supply: the names of the parameters given a value
Arguments == {{}, {"user_id"}}

DeployedServer(id, active, url) ==
    [tools |-> ToolsAt(id), selected_endpoints_count |-> Len(ToolsAt(id)),
     is_active |-> active, base_url |-> url]

\* Server Registry: setActive(id, bool)
setActive(reg, id, active) == [reg EXCEPT ![id].is_active = active]

updateBaseUrlKeepsUrl(reg, id, url) == reg

\* Server Registry: updateBaseUrl(id, url)
updateBaseUrl(reg, id, url) == [reg EXCEPT ![id].base_url = url]

ComposeUnchecked(reg, order) ==
    [error |-> "",
     toolset |-> Compose(reg, SelectSeq(order, LAMBDA id : id \in DOMAIN reg))]

\* compose(serverIds) -> ComposedToolset | Error
ComposeOrError(reg, order) ==
    IF \E i \in 1..Len(order) : order[i] \notin DOMAIN reg
    THEN [error |-> "UnknownServerError", toolset |-> EmptyToolset]
    ELSE IF \E i \in 1..Len(order) : ~reg[order[i]].is_active
    THEN [error |-> "ServerInactiveError", toolset |-> EmptyToolset]
    ELSE [error |-> "", toolset |-> Compose(reg, order)]

\* an execute call that ends before any HTTP request
Failed(tool, args, kind, parameter) ==
    [tool |-> tool, args |-> args, outcome |-> kind, missing |-> parameter,
     url |-> "none"]

\* an execute call whose HTTP request is dispatched to url
Dispatched(tool, args, url) ==
    [tool |-> tool, args |-> args, outcome |-> "pending", missing |-> "none",
     url |-> url]

ExecuteWithoutActivityCheck(reg, toolset, tool, args) ==
    IF tool \notin DOMAIN toolset
    THEN Failed(tool, args, "UnknownToolError", "none")
    ELSE LET owner    == toolset[tool].server_id
             contract == InputContract(toolset[tool].tool)
         IN  IF contract.required /\ contract.parameter \notin args
             THEN Failed(tool, args, "MissingRequiredParameterError", contract.parameter)
             ELSE Dispatched(tool, args, reg[owner].base_url)

ExecuteWithoutRequiredCheck(reg, toolset, tool, args) ==
    IF tool \notin DOMAIN toolset
    THEN Failed(tool, args, "UnknownToolError", "none")
    ELSE LET owner == toolset[tool].server_id
         IN  IF ~reg[owner].is_active
             THEN Failed(tool, args, "ServerInactiveError", "none")
             ELSE Dispatched(tool, args, reg[owner].base_url)

\* execute(toolName, arguments, composedToolset), steps 1 to 4 up to the
\* dispatch of the HTTP request
Execute(reg, toolset, tool, args) ==
    IF tool \notin DOMAIN toolset
    THEN Failed(tool, args, "UnknownToolError", "none")
    ELSE LET owner    == toolset[tool].server_id
             contract == InputContract(toolset[tool].tool)
         IN  IF ~reg[owner].is_active
             THEN Failed(tool, args, "ServerInactiveError", "none")
             ELSE IF contract.required /\ contract.parameter \notin args
             THEN Failed(tool, args, "MissingRequiredParameterError", contract.parameter)
             ELSE Dispatched(tool, args, reg[owner].base_url)

NoSession == [error |-> "none", toolset |-> EmptyToolset, provider_called |-> FALSE]

\* the servers deployed so far: ServerA, and ServerB or not; each running or
\* stopped
DispInit ==
    /\ \E R \in {{ServerA}, DeployedIds} : \E a \in [R -> BOOLEAN] :
           servers = [id \in R |-> DeployedServer(id, a[id], "u1")]
    /\ requestedUrl = [id \in DOMAIN servers |-> "u1"]
    /\ session = NoSession
    /\ log = <<>>

\* POST /swagger-specs/generated-servers/{id}/undeploy
Undeploy(id) ==
    /\ id \in DOMAIN servers
    /\ servers[id].is_active
    /\ servers' = setActive(servers, id, FALSE)
    /\ UNCHANGED <<requestedUrl, session, log>>
    /\ UNCHANGED outsideDisp

\* POST /swagger-specs/generated-servers/{id}/deploy
Deploy(id) ==
    /\ id \in DOMAIN servers
    /\ ~servers[id].is_active
    /\ servers' = setActive(servers, id, TRUE)
    /\ UNCHANGED <<requestedUrl, session, log>>
    /\ UNCHANGED outsideDisp

\* PATCH /swagger-specs/{spec_id}/base-url succeeds for the specification of
\* server id
PatchBaseUrl(id, url) ==
    /\ id \in DOMAIN servers
    /\ requestedUrl[id] # url
    /\ servers' = updateBaseUrl(servers, id, url)
    /\ requestedUrl' = [requestedUrl EXCEPT ![id] = url]
    /\ UNCHANGED <<session, log>>
    /\ UNCHANGED outsideDisp

\* a user message is submitted with the server ids order: the toolset is
\* composed and, if that succeeds, the provider is called
SubmitMessage(order) ==
    /\ order # <<>>
    /\ LET c == ComposeOrError(servers, order) IN
           session' = [error |-> c.error, toolset |-> c.toolset,
                       provider_called |-> c.error = ""]
    /\ UNCHANGED <<servers, requestedUrl, log>>
    /\ UNCHANGED outsideDisp

\* the agent loop executes one tool invocation of the session
ExecuteTool(tool, args) ==
    /\ session.error = ""
    /\ Len(log) < MaxExecutes
    /\ log' = Append(log, Execute(servers, session.toolset, tool, args))
    /\ UNCHANGED <<servers, requestedUrl, session>>
    /\ UNCHANGED outsideDisp

\* the backend API answers a dispatched request with a 2xx or another status
HttpResponds(k, outcome) ==
    /\ k \in 1..Len(log)
    /\ log[k].outcome = "pending"
    /\ log' = [log EXCEPT ![k].outcome = outcome]
    /\ UNCHANGED <<servers, requestedUrl, session>>
    /\ UNCHANGED outsideDisp

SessionOrders ==
    UNION {{o \in [1..n -> DeployedIds] : \A i, j \in 1..n : o[i] = o[j] => i = j} :
               n \in 1..Cardinality(DeployedIds)}

DispNext ==
    \/ \E id \in DeployedIds : Undeploy(id)
    \/ \E id \in DeployedIds : Deploy(id)
    \/ \E id \in DeployedIds, url \in BaseUrls : PatchBaseUrl(id, url)
    \/ \E order \in SessionOrders : SubmitMessage(order)
    \/ \E tool \in {<<"x">>, <<"y">>}, args \in Arguments : ExecuteTool(tool, args)
    \/ \E k \in 1..MaxExecutes, outcome \in {"ok", "UpstreamStatusError"} :
           HttpResponds(k, outcome)

--------------------------------------------------------------------------
(* FileUpload *)

\* maxSize = 10 * 1024 * 1024
maxSize == 10485760
\* accept = '.json,.yaml,.yml', split at the commas
accept == <<<<".", "j", "s", "o", "n">>, <<".", "y", "a", "m", "l">>, <<".", "y", "m", "l">>>>

\* String.prototype.endsWith
endsWith(str, suffix) ==
    /\ Len(suffix) <= Len(str)
    /\ SubSeq(str, Len(str) - Len(suffix) + 1, Len(str)) = suffix

\* ext.replace('.', ''): the first "." of ext is removed
RemoveFirstDot(ext) ==
    IF \E k \in 1..Len(ext) : ext[k] = "."
    THEN LET k == CHOOSE k \in 1..Len(ext) :
                      ext[k] = "." /\ \A h \in 1..(k - 1) : ext[h] # "."
         IN  SubSeq(ext, 1, k - 1) \o SubSeq(ext, k + 1, Len(ext))
    ELSE ext

\* validateFile: the error it sets, "null" when the file is valid
validateFile(f) ==
    IF f.size > maxSize
    THEN "File size exceeds maximum"
    ELSE LET fileName == [k \in 1..Len(f.name) |-> toLowerCase(f.name[k])] IN
         IF \E e \in 1..Len(accept) : endsWith(fileName, RemoveFirstDot(accept[e]))
         THEN "null"
         ELSE "Invalid file type"

NoFile == [name |-> <<>>, size |-> 0]

\* a file name is a short stem followed by one of a few endings
FileNameStems == UNION {[1..n -> {"a", "."}] : n \in 0..MaxNameLen}
FileNameEndings ==
    {<<"j", "s", "o", "n">>, <<"J", "S", "O", "N">>, <<"y", "a", "m", "l">>,
     <<"y", "m", "l">>, <<"Y", "m", "l">>, <<"t", "x", "t">>, <<"j", "s">>}
FileNames == {stem \o ending : stem \in FileNameStems, ending \in FileNameEndings}
FileSizes == {1, maxSize, maxSize + 1}
Files == [name : FileNames, size : FileSizes]

UploadInit ==
    /\ dragActive = FALSE
    /\ selectedFile = NoFile
    /\ error = "null"
    /\ file = NoFile
    /\ onFileSelect = NoFile
    /\ uploaderFile = NoFile
    /\ uploadPending = FALSE

\* dragenter, dragover and dragleave over the drop zone
handleDrag(type) ==
    /\ selectedFile = NoFile
    /\ dragActive' = (type \in {"dragenter", "dragover"})
    /\ dragActive' # dragActive
    /\ UNCHANGED <<selectedFile, error, file, onFileSelect, uploaderFile, uploadPending>>
    /\ UNCHANGED outsideUpload

\* what handleDrop and handleChange do with the first file of the event;
\* onFileSelect is the dialog's setSelectedFile
Offer(f) ==
    /\ selectedFile = NoFile
    /\ file' = f
    /\ error' = validateFile(f)
    /\ IF validateFile(f) = "null"
       THEN selectedFile' = f /\ onFileSelect' = f /\ uploaderFile' = f
       ELSE /\ selectedFile' = selectedFile /\ onFileSelect' = NoFile
            /\ uploaderFile' = uploaderFile
    /\ UNCHANGED uploadPending

handleDrop(f) ==
    /\ Offer(f)
    /\ dragActive' = FALSE
    /\ UNCHANGED outsideUpload

handleChange(f) ==
    /\ Offer(f)
    /\ UNCHANGED dragActive
    /\ UNCHANGED outsideUpload

\* the X button of the selected file
handleRemove ==
    /\ selectedFile # NoFile
    /\ selectedFile' = NoFile
    /\ error' = "null"
    /\ file' = NoFile
    /\ onFileSelect' = NoFile
    /\ UNCHANGED <<dragActive, uploaderFile, uploadPending>>
    /\ UNCHANGED outsideUpload

\* canSubmit() on the file tab
canSubmit == uploaderFile # NoFile

\* Import Specification on the file tab: handleSubmit, then handleFileUpload up
\* to the await; the button is disabled={!canSubmit() || isUploading}
handleSubmit ==
    /\ canSubmit
    /\ ~uploadPending
    /\ uploadPending' = TRUE
    /\ UNCHANGED <<dragActive, selectedFile, error, file, onFileSelect, uploaderFile>>
    /\ UNCHANGED outsideUpload

\* the upload succeeds (handleClose resets and closes the dialog, which
\* unmounts FileUpload) or fails (the catch block)
UploadSettled(ok) ==
    /\ uploadPending
    /\ uploadPending' = FALSE
    /\ IF ok
       THEN /\ uploaderFile' = NoFile
            /\ dragActive' = FALSE
            /\ selectedFile' = NoFile
            /\ error' = "null"
            /\ file' = NoFile
            /\ onFileSelect' = NoFile
       ELSE UNCHANGED <<dragActive, selectedFile, error, file, onFileSelect, uploaderFile>>
    /\ UNCHANGED outsideUpload

UploadNext ==
    \/ \E type \in {"dragenter", "dragover", "dragleave"} : handleDrag(type)
    \/ \E f \in Files : handleDrop(f)
    \/ \E f \in Files : handleChange(f)
    \/ handleRemove
    \/ handleSubmit
    \/ \E ok \in BOOLEAN : UploadSettled(ok)

--------------------------------------------------------------------------
(* DeployedMCPsPage: Stop, Start and Restart of a deployed server *)

\* no call of the handler is in flight
NoCall == [id |-> <<>>, pc |-> "idle", undeploy |-> "none", deploy |-> "none"]

\* GET /swagger-specs/deployed-servers
ListOf(reg) == [id \in DOMAIN reg |-> reg[id].is_active]

PageInit ==
    /\ deployedData = ListOf(servers)
    /\ isPending = FALSE
    /\ invalidated = FALSE
    /\ restarting = NoCall
    /\ stopping = NoCall
    /\ starting = NoCall

\* the refetch of the list that an invalidation started completes
ListRefetched ==
    /\ invalidated
    /\ deployedData' = ListOf(servers)
    /\ invalidated' = FALSE
    /\ UNCHANGED <<servers, isPending, restarting, stopping, starting>>
    /\ UNCHANGED outsidePage

\* handleStop: the button is shown while the list says is_active, and is
\* disabled while undeployMCP.isPending; the user confirms
handleStop(id) ==
    /\ stopping.pc = "idle"
    /\ id \in DOMAIN deployedData /\ deployedData[id]
    /\ ~isPending
    /\ stopping' = [NoCall EXCEPT !.id = id, !.pc = "undeploying", !.undeploy = "pending"]
    /\ isPending' = TRUE
    /\ UNCHANGED <<servers, deployedData, invalidated, restarting, starting>>
    /\ UNCHANGED outsidePage

\* the undeploy request of handleStop succeeds (onSuccess, alert) or fails (alert)
StopSettled(ok) ==
    /\ stopping.pc = "undeploying"
    /\ servers' = IF ok THEN setActive(servers, stopping.id, FALSE) ELSE servers
    /\ invalidated' = (ok \/ invalidated)
    /\ isPending' = FALSE
    /\ stopping' = NoCall
    /\ UNCHANGED <<deployedData, restarting, starting>>
    /\ UNCHANGED outsidePage

\* handleStart: the button is shown while the list says the server is inactive
handleStart(id) ==
    /\ starting.pc = "idle"
    /\ id \in DOMAIN deployedData /\ ~deployedData[id]
    /\ starting' = [NoCall EXCEPT !.id = id, !.pc = "deploying", !.deploy = "pending"]
    /\ UNCHANGED <<servers, deployedData, isPending, invalidated, restarting, stopping>>
    /\ UNCHANGED outsidePage

\* the deploy request of handleStart succeeds (refetch follows) or fails (alert)
StartDeploySettled(ok) ==
    /\ starting.pc = "deploying"
    /\ servers' = IF ok THEN setActive(servers, starting.id, TRUE) ELSE servers
    /\ starting' = IF ok THEN [starting EXCEPT !.pc = "refetching", !.deploy = "succeeded"]
                         ELSE NoCall
    /\ UNCHANGED <<deployedData, isPending, invalidated, restarting, stopping>>
    /\ UNCHANGED outsidePage

\* await refetch() of handleStart returns; alert('MCP server started successfully')
StartRefetched ==
    /\ starting.pc = "refetching"
    /\ deployedData' = ListOf(servers)
    /\ starting' = NoCall
    /\ UNCHANGED <<servers, isPending, invalidated, restarting, stopping>>
    /\ UNCHANGED outsidePage

\* handleRestart: the button is shown while the list says is_active, and is
\* disabled while undeployMCP.isPending; it issues the undeploy request
handleRestart(id) ==
    /\ restarting.pc \in {"idle", "succeeded", "failed"}
    /\ id \in DOMAIN deployedData /\ deployedData[id]
    /\ ~isPending
    /\ restarting' = [NoCall EXCEPT !.id = id, !.pc = "undeploying", !.undeploy = "pending"]
    /\ isPending' = TRUE
    /\ UNCHANGED <<servers, deployedData, invalidated, stopping, starting>>
    /\ UNCHANGED outsidePage

\* await undeployMCP.mutateAsync(serverId) returns (onSuccess invalidates the
\* list, the handler goes on to wait) or throws (alert of the failure)
RestartUndeploySettled(ok) ==
    /\ restarting.pc = "undeploying"
    /\ servers' = IF ok THEN setActive(servers, restarting.id, FALSE) ELSE servers
    /\ invalidated' = (ok \/ invalidated)
    /\ isPending' = FALSE
    /\ restarting' = IF ok THEN [restarting EXCEPT !.pc = "waiting", !.undeploy = "succeeded"]
                           ELSE [restarting EXCEPT !.pc = "failed", !.undeploy = "failed"]
    /\ UNCHANGED <<deployedData, stopping, starting>>
    /\ UNCHANGED outsidePage

\* the 1000 ms are over: api.post(.../deploy) is issued
RestartDeployIssued ==
    /\ restarting.pc = "waiting"
    /\ restarting' = [restarting EXCEPT !.pc = "deploying", !.deploy = "pending"]
    /\ UNCHANGED <<servers, deployedData, isPending, invalidated, stopping, starting>>
    /\ UNCHANGED outsidePage

\* the deploy request of handleRestart succeeds (refetch follows) or fails (alert)
RestartDeploySettled(ok) ==
    /\ restarting.pc = "deploying"
    /\ servers' = IF ok THEN setActive(servers, restarting.id, TRUE) ELSE servers
    /\ restarting' = IF ok THEN [restarting EXCEPT !.pc = "refetching", !.deploy = "succeeded"]
                           ELSE [restarting EXCEPT !.pc = "failed", !.deploy = "failed"]
    /\ UNCHANGED <<deployedData, isPending, invalidated, stopping, starting>>
    /\ UNCHANGED outsidePage

\* await refetch() of handleRestart returns;
\* alert('MCP server restarted successfully')
RestartRefetched ==
    /\ restarting.pc = "refetching"
    /\ deployedData' = ListOf(servers)
    /\ restarting' = [restarting EXCEPT !.pc = "succeeded"]
    /\ UNCHANGED <<servers, isPending, invalidated, stopping, starting>>
    /\ UNCHANGED outsidePage

PageNext ==
    \/ ListRefetched
    \/ \E id \in DeployedIds : handleStop(id)
    \/ \E ok \in BOOLEAN : StopSettled(ok)
    \/ \E id \in DeployedIds : handleStart(id)
    \/ \E ok \in BOOLEAN : StartDeploySettled(ok)
    \/ StartRefetched
    \/ \E id \in DeployedIds : handleRestart(id)
    \/ \E ok \in BOOLEAN : RestartUndeploySettled(ok)
    \/ RestartDeployIssued
    \/ \E ok \in BOOLEAN : RestartDeploySettled(ok)
    \/ RestartRefetched

--------------------------------------------------------------------------
(* Specifications: each runs one part of the program, the others at rest *)

CfgAtRest ==
    /\ localConfigs = <<>>
    /\ hasChanges = FALSE
    /\ configs = <<>>
    /\ generationStatus = "none"
    /\ savePending = FALSE
    /\ updates = <<>>
    /\ stored = <<>>
    /\ tools = <<>>
    /\ compiledFrom = <<>>
    /\ edits = 0
    /\ lastEdit = <<>>
    /\ generationId = 0
    /\ interval = 0
    /\ fetching = FALSE
    /\ issued = 0
    /\ generated = "none"
    /\ deploymentUrl = 0
    /\ deployPending = FALSE

NameAtRest ==
    /\ http_method = <<>>
    /\ path = <<>>
    /\ placeholder = <<>>
    /\ rendered = FALSE

CompAtRest ==
    /\ registry = EmptyToolset
    /\ serverIds = <<>>
    /\ composed = EmptyToolset

DispAtRest ==
    /\ servers = EmptyToolset
    /\ requestedUrl = EmptyToolset
    /\ session = NoSession
    /\ log = <<>>

\* the specifications that do not run FileUpload start with it mounted
UploadAtRest == UploadInit

PageAtRest ==
    /\ deployedData = EmptyToolset
    /\ isPending = FALSE
    /\ invalidated = FALSE
    /\ restarting = NoCall
    /\ stopping = NoCall
    /\ starting = NoCall

Init ==
    ChatInit /\ CfgAtRest /\ NameAtRest /\ CompAtRest
    /\ DispAtRest /\ UploadAtRest /\ PageAtRest
Next == ChatNext
Spec == Init /\ [][Next]_vars

ProviderInit ==
    ChatInit /\ CfgAtRest /\ NameAtRest /\ CompAtRest
    /\ DispAtRest /\ UploadAtRest /\ PageAtRest
SpecProvider == ProviderInit /\ [][ProviderNext]_vars

ConfigInit ==
    ChatInit /\ CfgInit /\ NameAtRest /\ CompAtRest
    /\ DispAtRest /\ UploadAtRest /\ PageAtRest
SpecConfig == ConfigInit /\ [][CfgNext]_vars

NamesInit ==
    ChatInit /\ CfgAtRest /\ NameInit /\ CompAtRest
    /\ DispAtRest /\ UploadAtRest /\ PageAtRest
SpecNames == NamesInit /\ [][NameNext]_vars

ComposeInit ==
    ChatInit /\ CfgAtRest /\ NameAtRest /\ CompInit
    /\ DispAtRest /\ UploadAtRest /\ PageAtRest
SpecCompose == ComposeInit /\ [][CompNext]_vars

DispatchInit ==
    ChatInit /\ CfgAtRest /\ NameAtRest /\ CompAtRest
    /\ DispInit /\ UploadAtRest /\ PageAtRest
SpecDispatch == DispatchInit /\ [][DispNext]_vars

FileUploadInit ==
    ChatInit /\ CfgAtRest /\ NameAtRest /\ CompAtRest
    /\ DispAtRest /\ UploadInit /\ PageAtRest
SpecUpload == FileUploadInit /\ [][UploadNext]_vars

\* the page is opened on a registry with servers deployed
ServersInit ==
    ChatInit /\ CfgAtRest /\ NameAtRest /\ CompAtRest
    /\ DispInit /\ UploadAtRest /\ PageInit
SpecServers == ServersInit /\ [][PageNext]_vars


--------------------------------------------------------------------------
(* Conversation state predicates *)

\* tool-result turns of h, after position k, that carry invocation id i
ResultsFor(h, k, i) == {m \in (k + 1)..Len(h) : h[m].role = "tool" /\ h[m].id = i}

\* every invocation an assistant turn of h requested has exactly one tool-result turn
EveryInvocationAnswered(h) ==
    \A k \in 1..Len(h) :
        h[k].role = "assistant" =>
            \A j \in 1..Len(h[k].ids) : Cardinality(ResultsFor(h, k, h[k].ids[j])) = 1

\* every tool-result turn references an id an earlier assistant turn emitted
ResultsReferenceEarlierIds(h) ==
    \A m \in 1..Len(h) :
        h[m].role = "tool" =>
            \E k \in 1..(m - 1) : h[k].role = "assistant" /\ h[m].id \in SeqRange(h[k].ids)

\* no invocation id is emitted twice
EmittedIdsUnique(h) ==
    \A i, j \in 1..Len(EmittedIds(h)) : i # j => EmittedIds(h)[i] # EmittedIds(h)[j]

UserTurnCount(h) == Cardinality({k \in 1..Len(h) : h[k].role = "user"})

--------------------------------------------------------------------------
(* Claims *)

\* C1: when a turn has ended with the loop run to its end, every tool
\* invocation requested by an assistant turn the loop went past (every
\* assistant turn but the conversation's last one) has exactly one tool-result
\* turn; no sibling invocation is left without a result and none is dropped.
C1_EveryInvocationGetsOneResult ==
    (pc = "idle" /\ stop = "final" /\ conversationHistory # <<>>) =>
        EveryInvocationAnswered(
            SubSeq(conversationHistory, 1, Len(conversationHistory) - 1))

\* C2: the provider is called again only after every tool invocation of the
\* preceding provider response has produced its tool-result.
C2_ProviderWaitsForAllSiblings == pendingAtCall = {}

\* C3: a turn that ends without an error ends with a provider turn that has
\* no pending tool invocations, or with a TurnLimitExceeded notice as the
\* final answer.
C3_EndsWithFinalAnswerOrNotice ==
    (pc = "idle" /\ stop = "final" /\ conversationHistory # <<>>) =>
        \/ /\ conversationHistory[Len(conversationHistory)].role = "assistant"
           /\ conversationHistory[Len(conversationHistory)].ids = <<>>
        \/ /\ messages # <<>>
           /\ messages[Len(messages)] = "TurnLimitExceeded"

\* C4: in every reachable conversation state, the one the page keeps and the
\* one a running turn received, every tool-result turn references an
\* invocation id emitted by an earlier assistant turn, and no invocation id
\* is emitted twice.
C4_ResultsReferenceUniqueIds ==
    /\ ResultsReferenceEarlierIds(conversationHistory)
    /\ EmittedIdsUnique(conversationHistory)
    /\ ResultsReferenceEarlierIds(result.conversation_history)
    /\ EmittedIdsUnique(result.conversation_history)

\* C4 witness: a second user message on a history kept from an earlier turn
\* that executed a tool, with ids synthesized by the counter
C4_Witness ==
    /\ pc = "idle"
    /\ UserTurnCount(conversationHistory) >= 2
    /\ \E m \in 1..Len(conversationHistory) : conversationHistory[m].role = "tool"
    /\ IdCount(conversationHistory, "call") >= 2

\* C5: a turn aborted by a failed provider call leaves the conversation
\* history exactly as it was before the user message was submitted.
C5_FailedProviderCallKeepsHistory ==
    (pc = "idle" /\ stop = "error") => conversationHistory = histBefore

\* C24: after Clear Chat, the conversation history sent with the next user
\* message is empty and the message list holds no earlier message: the
\* responses of a turn that was still in flight when the chat was cleared
\* never restore history or messages of before the clear.  (A turn in
\* flight always shows its user message, so an empty message list during a
\* turn is a chat cleared in flight.)
C24_ClearChatIsFinal ==
    [][/\ handleClearChat => (messages' = <<>> /\ conversationHistory' = <<>>)
       /\ (pc # "idle" /\ messages = <<>> /\ conversationHistory = <<>>)
              => (messages' = <<>> /\ conversationHistory' = <<>>)]_vars

\* a user message is being submitted: it is appended to the message list and
\* the call of the provider is started
Submitted == messages' = Append(messages, "user") /\ pc' = "test"

\* C25: at most one turn is in flight per chat: a new user message cannot be
\* submitted, by button or by the Enter key, while the provider call or a
\* tool execution of an earlier message is pending, so two turns never read
\* and overwrite the conversation history concurrently.
C25_OneTurnInFlight ==
    /\ [](pc # "idle" => inputMessage = "")
    /\ [][/\ Submitted => pc = "idle"
          /\ (pc # "idle" /\ conversationHistory' # conversationHistory
                  /\ conversationHistory' # <<>>)
                 => (\E k \in 0..Len(conversationHistory') :
                         SubSeq(conversationHistory', 1, k) = request.conversation_history)
         ]_vars

\* a second user message was submitted after the turn of the first one had
\* executed a tool and ended
C25_Witness ==
    /\ pc = "test"
    /\ Len(messages) >= 4
    /\ request.conversation_history # <<>>

\* the settings that differ from st at most in the fields of the provider
\* that is not p
DifferInUnselected(p, st) ==
    {other \in Settings :
        IF p = "openai"
        THEN /\ other.openaiModel = st.openaiModel
             /\ other.openaiApiKey = st.openaiApiKey
             /\ other.openaiBaseUrl = st.openaiBaseUrl
        ELSE /\ other.anthropicModel = st.anthropicModel
             /\ other.anthropicApiKey = st.anthropicApiKey}

\* the requests of the turn in flight: the test request, and the
\* execute-tool request of the loop's current tool call
RequestsInFlight ==
    IF pc = "exec" THEN {request, ExecRequest(result, request, idx)}
    ELSE IF pc = "test" THEN {request}
    ELSE {}

\* C29: requests for the selected provider never carry the other provider's
\* settings: for two runs that differ only in the unselected provider's API
\* key, model and base URL, every test and execute-tool request is identical.
\* With provider anthropic neither the OpenAI key nor a base URL is sent;
\* with provider openai the Anthropic key and model are not sent.
C29_UnselectedProviderNotSent ==
    \A r \in RequestsInFlight :
        /\ \A other \in DifferInUnselected(r.provider, settings) :
               ProviderFields(r.provider, other)
                   = [model |-> r.model, api_key |-> r.api_key, base_url |-> r.base_url]
        /\ r.provider = "anthropic"
               => /\ r.base_url = "undefined"
                  /\ r.api_key # "sk-openai"
                  /\ r.model \notin {"gpt-4o", "gpt-4"}
        /\ r.provider = "openai"
               => /\ r.api_key # "sk-ant"
                  /\ r.model \notin {"claude-3-haiku-20240307", "claude-3-opus"}

\* an execute-tool request for anthropic is in flight while the panel holds
\* an OpenAI key and a base URL of the user's own
C29_Witness ==
    /\ pc = "exec"
    /\ request.provider = "anthropic"
    /\ request.api_key = "sk-ant"
    /\ settings.openaiApiKey = "sk-openai"
    /\ settings.openaiBaseUrl = "http://localhost"

--------------------------------------------------------------------------
(* Endpoint configuration: properties *)

ConfigOf(cs, id) == cs[CHOOSE k \in 1..Len(cs) : cs[k].id = id]

ToolsRequiredIsUserRequired ==
    \A t \in 1..Len(tools) :
        \A j \in 1..Len(tools[t].inputContract) :
            tools[t].inputContract[j].required =
                ConfigOf(compiledFrom, tools[t].endpoint_id).parameter_configurations[j].user_required

DeclaredRequiredKept ==
    \A k \in 1..Len(localConfigs) :
        \A j \in 1..Len(localConfigs[k].parameter_configurations) :
            localConfigs'[k].parameter_configurations[j].required =
                localConfigs[k].parameter_configurations[j].required

\* C6: every parameter of every compiled tool has required equal to the
\* parameter's user_required, and toggling user_required (the mandatory
\* checkbox) never changes a declared required value.
C6_RequiredIsUserRequired ==
    /\ []ToolsRequiredIsUserRequired
    /\ [][(\E k \in 1..2, j \in 1..2, b \in BOOLEAN : setUserRequired(k, j, b))
            => DeclaredRequiredKept]_vars

LacksDescription(c) ==
    \/ c.is_selected /\ c.mcp_description = ""
    \/ \E j \in 1..Len(c.parameter_configurations) :
           c.parameter_configurations[j].description = ""

Unfinished(status) == status \in {"pending", "generating"}

C21_SaveGenerateDeployOrdered ==
    /\ [][/\ (issued' # issued)
                 => (~hasChanges /\ selectedCount > 0 /\ generationStatus = "none")
          /\ (~deployPending /\ deployPending')
                 => (generationId # 0 /\ generationStatus = "completed")
          /\ (generationStatus = "failed" /\ generationId' # generationId)
                 => (generationId' = 0 /\ generationStatus' = "none")]_vars
    /\ []((generationStatus = "none" /\ ~hasChanges /\ selectedCount > 0
              /\ issued < MaxGenerations)
             => ENABLED handleGenerateMCP)

\* a second generation of the page was completed and deployed
C21_Witness ==
    /\ deploymentUrl = 2
    /\ generationStatus = "completed"

\* a selected endpoint of the local configurations has an empty description
SelectedWithoutDesc ==
    \E k \in 1..Len(localConfigs) :
        localConfigs[k].is_selected /\ localConfigs[k].mcp_description = ""

\* C22: handleSave sends no batch update when any selected endpoint has an
\* empty description: the local configurations are unchanged and hasChanges
\* stays true.  Otherwise it sends one update entry for every local
\* configuration, and hasChanges becomes false only after the request
\* succeeded; on a failed request hasChanges stays true and the local edits
\* are kept.
C22_SaveValidatesThenSendsEveryConfig ==
    [][/\ (handleSave /\ SelectedWithoutDesc)
              => (/\ ~savePending' /\ updates' = updates /\ stored' = stored
                  /\ localConfigs' = localConfigs /\ hasChanges')
       /\ (handleSave /\ ~SelectedWithoutDesc)
              => (/\ savePending' /\ hasChanges'
                  /\ Len(updates') = Len(localConfigs)
                  /\ \A k \in 1..Len(localConfigs) :
                         /\ updates'[k].endpoint_id = localConfigs[k].id
                         /\ updates'[k].is_selected = localConfigs[k].is_selected
                         /\ updates'[k].mcp_description = localConfigs[k].mcp_description)
       /\ (hasChanges /\ ~hasChanges')
              => (savePending /\ ~savePending' /\ stored' = ApplyBatch(stored, updates))
       /\ SaveRejected => (hasChanges' /\ localConfigs' = localConfigs)]_vars

\* a batch update is in flight, with an entry for each of the two
\* configurations, and an edit made since then is still unsaved
C22_Witness ==
    /\ savePending
    /\ hasChanges
    /\ Len(updates) = Len(localConfigs)
    /\ Len(updates) = 2
    /\ \E k \in 1..2 : updates[k].mcp_description # localConfigs[k].mcp_description

\* C23: no edit is lost on the endpoint configuration page: for every
\* interleaving of user edits, a save request, its completion and the refetch
\* of the configurations, whenever hasChanges is false the local
\* configurations contain every edit the user made, including edits made
\* while the save request was in flight (stated for the last edit the user
\* made).
C23_NoEditLost ==
    (~hasChanges /\ lastEdit # <<>>)
        => \E k \in 1..Len(localConfigs) : localConfigs[k] = lastEdit[1]

\* C26: editing one parameter of an endpoint (handleParameterChange) replaces
\* only that parameter's configuration: the parameter list keeps its length
\* and order, and every other parameter configuration of the endpoint,
\* including a parameter with the same name in a different location, is
\* unchanged.
C26_ParameterEditTouchesOneParameter ==
    [][\A k \in 1..2, j \in 1..2 :
           ((\E b \in BOOLEAN : setUserRequired(k, j, b))
                \/ (\E t \in Texts : setParameterDescription(k, j, t)))
               => LET before == localConfigs[k].parameter_configurations
                      after == localConfigs'[k].parameter_configurations
                  IN  /\ Len(after) = Len(before)
                      /\ \A h \in 1..Len(before) : h # j => after[h] = before[h]]_vars

\* C28: a deploy request is issued only for a generation produced from the
\* currently saved configuration: once the configuration has been edited and
\* saved again after a generation, that earlier generation can no longer be
\* deployed from the page without generating again.
C28_DeploysCurrentConfiguration ==
    [][(~deployPending /\ deployPending') => compiledFrom = stored]_vars

--------------------------------------------------------------------------
(* Tool names: properties *)

\* [a-zA-Z_][a-zA-Z0-9_]*
IsIdentifier(str) ==
    /\ str # <<>>
    /\ str[1] \in UpperCase \cup LowerCase \cup {"_"}
    /\ \A k \in 1..Len(str) : str[k] \in UpperCase \cup LowerCase \cup Digits \cup {"_"}

\* C8: without a custom tool name the default name shown is the method, an
\* underscore and the path with every non-alphanumeric character replaced by
\* "_", the whole name lower-cased, and it matches [a-zA-Z_][a-zA-Z0-9_]*.
C8_DefaultNameLowerCasedIdentifier ==
    rendered =>
        /\ Len(placeholder) = Len(http_method) + 1 + Len(path)
        /\ \A k \in 1..Len(http_method) : placeholder[k] = toLowerCase(http_method[k])
        /\ placeholder[Len(http_method) + 1] = "_"
        /\ \A k \in 1..Len(path) :
               placeholder[Len(http_method) + 1 + k] =
                   IF path[k] \in UpperCase \cup LowerCase \cup Digits
                   THEN toLowerCase(path[k]) ELSE "_"
        /\ IsIdentifier(placeholder)

--------------------------------------------------------------------------
(* Toolset Composer: properties *)

RECURSIVE SumOfToolCounts(_)
SumOfToolCounts(order) ==
    IF order = <<>> THEN 0
    ELSE Len(registry[Head(order)].tools) + SumOfToolCounts(Tail(order))

\* C9: the composed toolset has as many tools as the sum of the selected
\* servers' tool counts, also when names collide, and the total tool count
\* reported for the selected servers equals that sum.
C9_ComposedSizeIsSumOfCounts ==
    serverIds # <<>> =>
        /\ Cardinality(DOMAIN composed) = SumOfToolCounts(serverIds)
        /\ totalToolCount(registry, serverIds) = SumOfToolCounts(serverIds)

ToolsOf(i) == {registry[serverIds[i]].tools[k] : k \in 1..Len(registry[serverIds[i]].tools)}

\* C10: by server order, a tool no earlier server has keeps its name, a tool an
\* earlier server has is renamed by appending "_" and the first 8 characters
\* of its server id, and every tool of every selected server is found under
\* that name, mapped to its own server: the names are pairwise distinct.
C10_CollisionsRenamedByServerOrder ==
    \A i \in 1..Len(serverIds) :
        \A t \in ToolsOf(i) :
            LET name == IF \E h \in 1..(i - 1) : t \in ToolsOf(h)
                        THEN Renamed(t, serverIds[i]) ELSE t
            IN /\ name \in DOMAIN composed
               /\ composed[name] = [server_id |-> serverIds[i], tool |-> t]

--------------------------------------------------------------------------
(* Server Registry and Request Synthesizer: properties *)

\* the step appends an execute call to the log
ExecuteCalled == Len(log') = Len(log) + 1

\* C11: a stopped server stays registered with its tools, and an execute call
\* against a tool of the session fails with ServerInactiveError, without an
\* HTTP request, exactly when the tool's server is inactive at the time of the
\* call; a call against a tool of an active server is not rejected for it.
C11_InactiveServerRejectedAtCallTime ==
    [][/\ DOMAIN servers' = DOMAIN servers
       /\ \A id \in DOMAIN servers : servers'[id].tools = servers[id].tools
       /\ ExecuteCalled =>
              LET e == log'[Len(log')] IN
              e.tool \in DOMAIN session.toolset =>
                  IF servers[session.toolset[e.tool].server_id].is_active
                  THEN e.outcome # "ServerInactiveError"
                  ELSE e.outcome = "ServerInactiveError" /\ e.url = "none"]_vars

\* a server of the session was stopped after composition: the call against its
\* tool is rejected, the call against the other server's tool is dispatched
C11_Witness ==
    /\ session.error = ""
    /\ \E j, k \in 1..Len(log) :
           /\ j < k
           /\ log[j].tool \in DOMAIN session.toolset
           /\ log[k].tool \in DOMAIN session.toolset
           /\ log[j].outcome = "ServerInactiveError"
           /\ log[k].url # "none"
           /\ ~servers[session.toolset[log[j].tool].server_id].is_active
           /\ servers[session.toolset[log[j].tool].server_id].tools # <<>>

--------------------------------------------------------------------------
(* Agent loop: properties of a failed tool execution *)

\* the tool-result turns of the last user message that carry an error payload
ErrorTurns(h) == {k \in (Len(histBefore) + 1)..Len(h) : h[k].role = "tool" /\ h[k].err}

\* C13: a non-2xx response of the backend API becomes the tool-result turn of
\* its invocation, carrying the error; the provider call that follows
\* receives that turn, and the turn of the user message ends with a final
\* answer, an assistant turn that requests no tool.
C13_UpstreamErrorEndsWithFinalAnswer ==
    (pc = "idle" /\ stop = "final") =>
        \A k \in ErrorTurns(conversationHistory) :
            /\ k < Len(conversationHistory)
            /\ conversationHistory[k + 1].role = "assistant"
            /\ conversationHistory[Len(conversationHistory)].role = "assistant"
            /\ conversationHistory[Len(conversationHistory)].ids = <<>>

--------------------------------------------------------------------------
(* Request Synthesizer: required parameters; Toolset Composer: errors *)

C15_ComposeErrorsPrecedeProviderCall ==
    [][\A order \in SessionOrders :
           SubmitMessage(order) =>
               /\ (\E i \in 1..Len(order) : order[i] \notin DOMAIN servers)
                      => (session'.error = "UnknownServerError"
                          /\ ~session'.provider_called)
               /\ (/\ \A i \in 1..Len(order) : order[i] \in DOMAIN servers
                   /\ \E i \in 1..Len(order) : ~servers[order[i]].is_active)
                      => (session'.error = "ServerInactiveError"
                          /\ ~session'.provider_called)
               /\ session'.provider_called => session'.error = ""]_vars

\* a message was submitted while a selected, registered server was stopped
C15_Witness ==
    /\ session.error = "ServerInactiveError"
    /\ ~session.provider_called
    /\ session.toolset = EmptyToolset
    /\ \E id \in DOMAIN servers : ~servers[id].is_active

--------------------------------------------------------------------------
(* AITestingPage: what the requests of a turn carry *)

\* C16: the test request and every execute-tool request of a turn carry the
\* complete list of the server ids selected when the message was sent, not
\* only the first selected server, to which the request is addressed.
C16_RequestsCarryAllSelectedServers ==
    /\ pc = "test" => (request.server_ids = selectedServerIds /\ request.server_ids # <<>>)
    /\ pc = "exec" =>
           /\ request.server_ids = selectedServerIds
           /\ ExecRequest(result, request, idx).server_ids = selectedServerIds

\* the second execute-tool request of a turn with two selected servers
C16_Witness ==
    /\ pc = "exec"
    /\ idx = 2
    /\ Len(selectedServerIds) = 2
    /\ ExecRequest(result, request, idx).server_ids = selectedServerIds

\* the authorization value a request carries for the field's value
Sent(value) == IF value = "" THEN "undefined" ELSE value

--------------------------------------------------------------------------
(* FileUpload: properties *)

\* the name, lower-cased, ends with .json, .yaml or .yml
HasAcceptedExtension(name) ==
    \E ext \in {<<".", "j", "s", "o", "n">>, <<".", "y", "a", "m", "l">>,
                <<".", "y", "m", "l">>} :
        endsWith([k \in 1..Len(name) |-> toLowerCase(name[k])], ext)

\* C18: the upload control accepts a file if and only if its size is at most
\* 10 MB and its name, compared case-insensitively, ends with .json, .yaml or
\* .yml: an accepted file becomes the selected file and is passed to
\* onFileSelect, a rejected file is neither and sets an error message.
C18_AcceptsExactlySmallSpecFiles ==
    file # NoFile =>
        IF file.size <= 10 * 1024 * 1024 /\ HasAcceptedExtension(file.name)
        THEN selectedFile = file /\ onFileSelect = file /\ error = "null"
        ELSE selectedFile = NoFile /\ onFileSelect = NoFile /\ error # "null"

\* C27: after the user removes the chosen file in the upload control, the
\* import dialog cannot submit that file: on the file tab Import
\* Specification stays disabled and no upload request is sent until a new
\* valid file has been chosen.
C27_RemovedFileIsNotSubmitted ==
    /\ [](selectedFile = NoFile => ~canSubmit)
    /\ [][(~uploadPending /\ uploadPending')
              => (selectedFile # NoFile /\ uploaderFile = selectedFile)]_vars

--------------------------------------------------------------------------
(* DeployedMCPsPage: properties *)

\* C19: Restart stops and then starts the server: the deploy request is
\* issued only after the undeploy request of the same server has succeeded,
\* a failed undeploy issues no deploy request, and whenever Restart reports
\* success the server is active.
C19_RestartStopsThenStarts ==
    [][/\ (restarting'.deploy # "none" => restarting'.undeploy = "succeeded")
       /\ (restarting'.undeploy = "failed" => restarting'.deploy = "none")
       /\ (restarting.pc = "refetching" /\ restarting'.pc = "succeeded"
              => servers'[restarting'.id].is_active)]_vars

====
